---- MODULE Spec2Model ----
(***************************************************************************)
(* AdaptiveMarketMaker (src/adaptive_market_maker.py): the spread          *)
(* calculation, the quote construction and the host-driven tick cycle.     *)
(*                                                                         *)
(* Python floats and Decimals are modelled as exact rationals <<n, d>>     *)
(* (d > 0, lowest terms), so properties are those of the arithmetic the    *)
(* code writes down, not of IEEE-754 rounding.                             *)
(***************************************************************************)
EXTENDS Integers, Sequences, FiniteSets

VARIABLES
    current_timestamp,  \* host clock, read as self.current_timestamp
    create_timestamp,   \* self.create_timestamp: earliest time of the next refresh
    active_orders,      \* orders resting at the host for this strategy
    candles,            \* state of candles_df: "empty", "no_natr" or "ok"
    natr,               \* last NATR value of candles_df (read when candles = "ok")
    base_balance,       \* get_balance(base asset)
    quote_balance,      \* get_balance(quote asset)
    mid_price,          \* get_price_by_type(pair, MidPrice)
    best_bid,           \* get_price(pair, False)
    best_ask,           \* get_price(pair, True)
    fault,              \* the host accessor that raises in this snapshot, or "none"
    affordable,         \* sides the budget checker lets through in this snapshot
    spreads,            \* result of the last calculate_spreads on this snapshot
    steps,              \* steps performed by the last on_tick, in order
    outcome,            \* how the last on_tick on this snapshot ended
    refreshes           \* times of the completed refreshes, oldest first

vars == <<current_timestamp, create_timestamp, active_orders, candles, natr,
          base_balance, quote_balance, mid_price, best_bid, best_ask, fault,
          affordable, spreads, steps, outcome, refreshes>>

\* What the host shows the strategy during one tick.
snapshot == <<current_timestamp, candles, natr, base_balance, quote_balance,
              mid_price, best_bid, best_ask, fault, affordable>>

----------------------------------------------------------------------------
(* Exact rational arithmetic standing for float / Decimal arithmetic.      *)

RECURSIVE GCD(_, _)
GCD(a, b) == IF b = 0 THEN a ELSE GCD(b, a % b)

Abs(n) == IF n < 0 THEN -n ELSE n

Rat(n, d) ==
    LET s == IF d < 0 THEN -1 ELSE 1
        g == GCD(Abs(n), Abs(d))
    IN  <<(s * n) \div g, (s * d) \div g>>

RAdd(x, y) == Rat(x[1] * y[2] + y[1] * x[2], x[2] * y[2])
RSub(x, y) == Rat(x[1] * y[2] - y[1] * x[2], x[2] * y[2])
RMul(x, y) == Rat(x[1] * y[1], x[2] * y[2])
RDiv(x, y) == Rat(x[1] * y[2], x[2] * y[1])
RLe(x, y) == x[1] * y[2] <= y[1] * x[2]
RLt(x, y) == x[1] * y[2] < y[1] * x[2]
RAbs(x) == <<Abs(x[1]), x[2]>>
\* Python max(a, b) / min(a, b): b replaces a only when strictly beyond it.
RMax(x, y) == IF RLt(x, y) THEN y ELSE x
RMin(x, y) == IF RLt(y, x) THEN y ELSE x

Zero == Rat(0, 1)
One == Rat(1, 1)
Half == Rat(1, 2)

----------------------------------------------------------------------------
(* Class-level configuration.                                              *)

bid_spread == Rat(1, 1000)
ask_spread == Rat(1, 1000)
min_spread == Rat(1, 1000)
order_refresh_time == 15
order_amount == 1

----------------------------------------------------------------------------
(* Bounds of the model.                                                    *)

MaxTime == 30
ClockSteps == {5, 15}

MaxNatrMilli == 2
MaxBalance == 7

\* Volatilities 0, 0.001, ... and one that drives the spreads above 100%.
NatrGrid == {Rat(k, 1000) : k \in 0..MaxNatrMilli} \cup {Rat(3, 10)}
\* Base balances in whole units, quote balances in hundredths (worth whole
\* units at the mid price of Books).
BaseGrid == {Rat(k, 1) : k \in 0..MaxBalance}
QuoteGrid == {Rat(k, 100) : k \in 0..MaxBalance}
\* <<mid price, best bid, best ask>>: a normal book and a crossed one.
Books == {<<Rat(100, 1), Rat(99, 1), Rat(101, 1)>>,
          <<Rat(100, 1), Rat(101, 1), Rat(99, 1)>>}
CandleStates == {"empty", "no_natr", "ok"}
\* Accessors calculate_spreads uses that may raise.
CalcFaults == {"none", "candles", "balance", "price"}
Sides == {"BUY", "SELL"}

----------------------------------------------------------------------------
(* calculate_spreads                                                       *)

NoSpreads == [path |-> "none", bid |-> Zero, ask |-> Zero]

Fallback(why) == [path |-> why, bid |-> bid_spread, ask |-> ask_spread]

InventoryRatio(base, quote) ==
    LET total_value == RAdd(base, quote)
    IN  IF RLt(Zero, total_value) THEN RDiv(base, total_value) ELSE Half

\* Variants of SkewedSpreads with one slip each, used to show that the
\* properties below depend on the corresponding part of the calculation.
\* Skew(base, deviation, sign) is base * (1 + sign * deviation * 0.5).
Skew(base_spread, deviation, sign) ==
    RMul(base_spread, RAdd(One, RMul(RMul(sign, deviation), Half)))

\* The skewed spreads are returned without the min_spread floor.
SkewedSpreads_NoFloor(volatility, inventory_ratio) ==
    LET dev == RSub(inventory_ratio, Half)
        base_spread == RMax(min_spread, RMul(volatility, Rat(5, 1)))
    IN  IF RLt(Zero, dev)
        THEN [path |-> "computed", bid |-> Skew(base_spread, dev, Rat(-1, 1)),
              ask |-> Skew(base_spread, dev, One)]
        ELSE [path |-> "computed", bid |-> Skew(base_spread, RAbs(dev), One),
              ask |-> Skew(base_spread, RAbs(dev), Rat(-1, 1))]

\* The deviation is applied in full instead of halved.
SkewedSpreads_FullSkew(volatility, inventory_ratio) ==
    LET dev == RSub(inventory_ratio, Half)
        base_spread == RMax(min_spread, RMul(volatility, Rat(5, 1)))
    IN  IF RLt(Zero, dev)
        THEN [path |-> "computed",
              bid |-> RMax(min_spread, Skew(base_spread, dev, Rat(-2, 1))),
              ask |-> RMax(min_spread, Skew(base_spread, dev, Rat(2, 1)))]
        ELSE [path |-> "computed",
              bid |-> RMax(min_spread, Skew(base_spread, RAbs(dev), Rat(2, 1))),
              ask |-> RMax(min_spread, Skew(base_spread, RAbs(dev), Rat(-2, 1)))]

\* The short branch forgets abs() and uses the negative deviation as is.
SkewedSpreads_NoAbs(volatility, inventory_ratio) ==
    LET dev == RSub(inventory_ratio, Half)
        base_spread == RMax(min_spread, RMul(volatility, Rat(5, 1)))
    IN  IF RLt(Zero, dev)
        THEN [path |-> "computed",
              bid |-> RMax(min_spread, Skew(base_spread, dev, Rat(-1, 1))),
              ask |-> RMax(min_spread, Skew(base_spread, dev, One))]
        ELSE [path |-> "computed",
              bid |-> RMax(min_spread, Skew(base_spread, dev, One)),
              ask |-> RMax(min_spread, Skew(base_spread, dev, Rat(-1, 1)))]

\* The long branch widens the bid and tightens the ask.
SkewedSpreads_WrongSide(volatility, inventory_ratio) ==
    LET dev == RSub(inventory_ratio, Half)
        base_spread == RMax(min_spread, RMul(volatility, Rat(5, 1)))
    IN  IF RLt(Zero, dev)
        THEN [path |-> "computed",
              bid |-> RMax(min_spread, Skew(base_spread, dev, One)),
              ask |-> RMax(min_spread, Skew(base_spread, dev, Rat(-1, 1)))]
        ELSE [path |-> "computed",
              bid |-> RMax(min_spread, Skew(base_spread, RAbs(dev), One)),
              ask |-> RMax(min_spread, Skew(base_spread, RAbs(dev), Rat(-1, 1)))]

SkewedSpreads(volatility, inventory_ratio) ==
    LET target_ratio == Half
        inventory_deviation == RSub(inventory_ratio, target_ratio)
        base_spread == RMax(min_spread, RMul(volatility, Rat(5, 1)))
    IN  IF RLt(Zero, inventory_deviation)
        THEN [path |-> "computed",
              bid |-> RMax(min_spread,
                           RMul(base_spread,
                                RSub(One, RMul(inventory_deviation, Half)))),
              ask |-> RMax(min_spread,
                           RMul(base_spread,
                                RAdd(One, RMul(inventory_deviation, Half))))]
        ELSE LET deviation == RAbs(inventory_deviation)
             IN  [path |-> "computed",
                  bid |-> RMax(min_spread,
                               RMul(base_spread,
                                    RAdd(One, RMul(deviation, Half)))),
                  ask |-> RMax(min_spread,
                               RMul(base_spread,
                                    RSub(One, RMul(deviation, Half))))]

\* calculate_spreads without its try/except: a raising accessor is not caught.
calculate_spreads_Uncaught ==
    IF fault = "candles" THEN [path |-> "raised", bid |-> Zero, ask |-> Zero]
    ELSE IF candles = "empty" THEN Fallback("no_candles")
    ELSE IF fault \in {"balance", "price"}
    THEN [path |-> "raised", bid |-> Zero, ask |-> Zero]
    ELSE SkewedSpreads(IF candles = "ok" THEN natr ELSE Rat(1, 1000),
                       InventoryRatio(base_balance,
                                      RMul(mid_price, quote_balance)))

calculate_spreads ==
    IF fault = "candles" THEN Fallback("error")
    ELSE IF candles = "empty" THEN Fallback("no_candles")
    ELSE LET volatility == IF candles = "ok" THEN natr ELSE Rat(1, 1000)
         IN  IF fault \in {"balance", "price"} THEN Fallback("error")
             ELSE SkewedSpreads(volatility,
                                InventoryRatio(base_balance,
                                               RMul(mid_price, quote_balance)))

----------------------------------------------------------------------------
(* The spread calculator on its own: every snapshot of the grid, then one  *)
(* call of calculate_spreads.                                              *)

InitCalc ==
    /\ current_timestamp = 0
    /\ create_timestamp = 0
    /\ active_orders = {}
    /\ candles \in CandleStates
    /\ natr \in NatrGrid
    /\ base_balance \in BaseGrid
    /\ quote_balance \in QuoteGrid
    /\ \E b \in Books : mid_price = b[1] /\ best_bid = b[2] /\ best_ask = b[3]
    /\ fault \in CalcFaults
    /\ affordable = Sides
    /\ spreads = NoSpreads
    /\ steps = <<>>
    /\ outcome = "none"
    /\ refreshes = <<>>

CalculateSpreads ==
    /\ spreads = NoSpreads
    /\ spreads' = calculate_spreads
    /\ UNCHANGED <<snapshot, create_timestamp, active_orders, steps, outcome,
                   refreshes>>

NextCalc == CalculateSpreads

SpecCalc == InitCalc /\ [][NextCalc]_vars

----------------------------------------------------------------------------
(* The refresh performed by on_tick.  A run is the progress of one on_tick: *)
(* the steps done so far, the orders resting at the host, the proposal in  *)
(* hand, and whether a host call has raised (which ends the tick).         *)

NoOrder == [side |-> "NONE", price |-> Zero, amount |-> 0]

OrderCandidate(side, price) ==
    [side |-> side, price |-> price, amount |-> order_amount]

Step(op, order) == [op |-> op, order |-> order]

RunStart ==
    [steps |-> <<>>, orders |-> active_orders, spreads |-> spreads,
     proposal |-> <<>>, raised |-> FALSE]

\* An exception leaves on_tick: a run that has raised passes through every
\* later stage untouched.
Raise(run) == [run EXCEPT !.raised = TRUE]

RECURSIVE CancelSteps(_)
CancelSteps(orders) ==
    IF orders = {} THEN <<>>
    ELSE LET o == CHOOSE x \in orders : TRUE
         IN  <<Step("cancel", o)>> \o CancelSteps(orders \ {o})

cancel_all_orders(run) ==
    IF run.raised \/ run.orders = {} THEN run
    ELSE IF fault = "cancel" THEN Raise(run)
    ELSE [run EXCEPT !.steps = @ \o CancelSteps(run.orders), !.orders = {}]

\* The buy price is not clamped to the best bid.
clamp_buy_Unclamped(buy_price) == buy_price

clamp_buy(buy_price) == RMin(buy_price, best_bid)

clamp_sell(sell_price) == RMax(sell_price, best_ask)

\* Lines 134-152, with the spreads calculate_spreads returned.
BuildProposal(run, sp) ==
    IF fault = "book"
    THEN Raise([run EXCEPT !.steps = Append(@, Step("calculate_spreads", NoOrder)),
                           !.spreads = sp])
    ELSE [run EXCEPT
             !.steps = @ \o <<Step("calculate_spreads", NoOrder),
                              Step("create_proposal", NoOrder)>>,
             !.spreads = sp,
             !.proposal =
                 <<OrderCandidate("BUY",
                       clamp_buy(RMul(mid_price, RSub(One, sp.bid)))),
                   OrderCandidate("SELL",
                       clamp_sell(RMul(mid_price, RAdd(One, sp.ask))))>>]

create_proposal(run) ==
    IF run.raised THEN run
    ELSE IF fault = "price" THEN Raise(run)
    ELSE BuildProposal(run, calculate_spreads)

\* The host's budget checker (all_or_none) lets a candidate through whole or
\* not at all; it does not reprice.
adjust_proposal_to_budget(run) ==
    IF run.raised THEN run
    ELSE IF fault = "budget" THEN Raise(run)
    ELSE LET Passes(order) == order.side \in affordable
         IN  [run EXCEPT !.steps = Append(@, Step("adjust_candidates", NoOrder)),
                         !.proposal = SelectSeq(@, Passes)]

place_order(run, order) ==
    IF order.side = "SELL"
    THEN IF fault = "sell" THEN Raise(run)
         ELSE [run EXCEPT !.steps = Append(@, Step("sell", order)),
                          !.orders = @ \cup {order}]
    ELSE IF order.side = "BUY"
    THEN IF fault = "buy" THEN Raise(run)
         ELSE [run EXCEPT !.steps = Append(@, Step("buy", order)),
                          !.orders = @ \cup {order}]
    ELSE run

RECURSIVE PlaceFrom(_, _)
PlaceFrom(run, i) ==
    IF run.raised \/ i > Len(run.proposal) THEN run
    ELSE PlaceFrom(place_order(run, run.proposal[i]), i + 1)

place_orders(run) == PlaceFrom(run, 1)

\* The new orders are submitted before the resting ones are cancelled.
RefreshRun_SubmitBeforeCancel ==
    cancel_all_orders(
        place_orders(adjust_proposal_to_budget(create_proposal(RunStart))))

RefreshRun ==
    place_orders(
        adjust_proposal_to_budget(create_proposal(cancel_all_orders(RunStart))))

\* The refresh runs on every tick.
RefreshDue_Always == TRUE

RefreshDue == create_timestamp <= current_timestamp

\* create_timestamp is set to the current time, without the refresh delay.
StampAfter_NoDelay(run) ==
    IF run.raised THEN create_timestamp ELSE current_timestamp

\* create_timestamp is advanced whether or not the refresh raised.
StampAfter_EvenIfRaised(run) == order_refresh_time + current_timestamp

StampAfter(run) ==
    IF run.raised THEN create_timestamp
    ELSE order_refresh_time + current_timestamp

----------------------------------------------------------------------------
(* The tick cycle: the host advances its clock and market data between     *)
(* ticks, fills resting orders, and calls on_tick; calls are serialized.   *)

TickNatr == {Rat(2, 1000), Rat(3, 10)}
TickBalances == {<<Rat(7, 1), Rat(3, 100)>>, <<Rat(3, 1), Rat(7, 100)>>}
TickFaults == {"none", "balance", "price", "book", "cancel", "budget", "buy",
               "sell"}
TickAffordable == {{"BUY", "SELL"}, {"SELL"}, {}}

HostData(c, n, bb, qb, mp, bbid, bask, f, aff) ==
    /\ c = "ok"
    /\ n \in TickNatr
    /\ \E bal \in TickBalances : bb = bal[1] /\ qb = bal[2]
    /\ \E book \in Books : mp = book[1] /\ bbid = book[2] /\ bask = book[3]
    /\ f \in TickFaults
    /\ aff \in TickAffordable

Init ==
    /\ current_timestamp = 0
    /\ create_timestamp = 0
    /\ active_orders = {}
    /\ HostData(candles, natr, base_balance, quote_balance, mid_price,
                best_bid, best_ask, fault, affordable)
    /\ spreads = NoSpreads
    /\ steps = <<>>
    /\ outcome = "none"
    /\ refreshes = <<>>

\* What a refresh leaves behind when on_tick returns or raises.
EndRefresh(run) ==
    /\ steps' = run.steps
    /\ active_orders' = run.orders
    /\ spreads' = run.spreads
    /\ create_timestamp' = StampAfter(run)
    /\ outcome' = IF run.raised THEN "aborted" ELSE "refreshed"
    /\ refreshes' = IF run.raised THEN refreshes
                    ELSE Append(refreshes, current_timestamp)

on_tick ==
    /\ IF RefreshDue
       THEN EndRefresh(RefreshRun)
       ELSE /\ steps' = <<>>
            /\ outcome' = "skipped"
            /\ UNCHANGED <<active_orders, spreads, create_timestamp, refreshes>>
    /\ UNCHANGED snapshot

HostAdvance ==
    /\ \E d \in ClockSteps :
          /\ current_timestamp + d <= MaxTime
          /\ current_timestamp' = current_timestamp + d
    /\ HostData(candles', natr', base_balance', quote_balance', mid_price',
                best_bid', best_ask', fault', affordable')
    /\ spreads' = NoSpreads
    /\ steps' = <<>>
    /\ outcome' = "none"
    /\ UNCHANGED <<create_timestamp, active_orders, refreshes>>

\* The host fills a resting order and notifies the strategy, whose handler
\* only logs.
did_fill_order ==
    /\ \E order \in active_orders : active_orders' = active_orders \ {order}
    /\ spreads' = NoSpreads
    /\ steps' = <<>>
    /\ outcome' = "none"
    /\ UNCHANGED <<snapshot, create_timestamp, refreshes>>

Next == on_tick \/ HostAdvance \/ did_fill_order

Spec == Init /\ [][Next]_vars

----------------------------------------------------------------------------
(* Properties of the spread calculator (checked under SpecCalc).           *)

\* The volatility and inventory ratio calculate_spreads works from in the
\* current snapshot when it takes its computed path.
UsedVolatility == IF candles = "ok" THEN natr ELSE Rat(1, 1000)
UsedRatio == InventoryRatio(base_balance, RMul(mid_price, quote_balance))

\* C1: on the computed path both returned spreads are >= min_spread, for every
\* volatility >= 0 and every inventory ratio in [0, 1] of the grid.
C1_SpreadsAtLeastFloor ==
    spreads.path = "computed" =>
        /\ RLe(Zero, UsedVolatility)
        /\ RLe(Zero, UsedRatio) /\ RLe(UsedRatio, One)
        /\ RLe(min_spread, spreads.bid)
        /\ RLe(min_spread, spreads.ask)

\* Witness: a computed result whose bid is held up by the floor (zero
\* volatility, long inventory) while its ask is above the floor.
C1_Witness ==
    /\ spreads.path = "computed"
    /\ natr = Zero /\ candles = "ok"
    /\ RLt(Half, UsedRatio)
    /\ spreads.bid = min_spread
    /\ RLt(min_spread, spreads.ask)

\* C2 as stated: whenever an input is unavailable or invalid (no candles, the
\* volatility column missing, or a host accessor raising) calculate_spreads
\* does not raise and returns exactly the configured default pair.
C2_FallbackOnAnyUnavailable ==
    (/\ spreads.path # "none"
     /\ \/ candles \in {"empty", "no_natr"}
        \/ fault \in {"candles", "balance", "price"})
    => /\ spreads.path # "raised"
       /\ spreads.bid = bid_spread
       /\ spreads.ask = ask_spread

\* C2 amended: with no candles or a raising candle / balance / price accessor
\* calculate_spreads does not raise and returns exactly the default pair; with
\* candles present but the volatility column missing it does not fall back:
\* it substitutes volatility 0.001 and returns the spreads computed from it.
C2_FallbackOrSubstitute ==
    spreads.path # "none" =>
        /\ spreads.path # "raised"
        /\ (candles = "empty" \/ fault \in {"candles", "balance", "price"})
            => /\ spreads.path \in {"no_candles", "error"}
               /\ spreads.bid = bid_spread
               /\ spreads.ask = ask_spread
        /\ (candles = "no_natr" /\ fault = "none")
            => LET expected == SkewedSpreads(Rat(1, 1000), UsedRatio)
               IN  /\ spreads.path = "computed"
                   /\ spreads.bid = expected.bid
                   /\ spreads.ask = expected.ask

\* Witness: the volatility column is missing, nothing raises, and the result
\* is a computed pair that differs from the defaults.
C2_Witness ==
    /\ candles = "no_natr" /\ fault = "none"
    /\ spreads.path = "computed"
    /\ spreads.bid # bid_spread

\* C6: on the computed path the result equals the reference algorithm:
\* base = max(min_spread, 5 * volatility), deviation = ratio - 0.5, the
\* narrow factor (1 - 0.5|deviation|) on the bid and the wide factor
\* (1 + 0.5|deviation|) on the ask when deviation > 0, exchanged otherwise;
\* volatility 0.002 at ratio 0.7 gives (0.009, 0.011); ratio 0.5 gives
\* bid = ask = max(min_spread, 5 * volatility).
C6_MatchesReference ==
    spreads.path = "computed" =>
        LET base == RMax(min_spread, RMul(Rat(5, 1), UsedVolatility))
            dev == RSub(UsedRatio, Half)
            narrow == RMax(min_spread,
                           RMul(base, RSub(One, RMul(Half, RAbs(dev)))))
            wide == RMax(min_spread,
                         RMul(base, RAdd(One, RMul(Half, RAbs(dev)))))
        IN  /\ RLt(Zero, dev) => spreads.bid = narrow /\ spreads.ask = wide
            /\ ~RLt(Zero, dev) => spreads.bid = wide /\ spreads.ask = narrow
            /\ (UsedVolatility = Rat(2, 1000) /\ UsedRatio = Rat(7, 10))
                => spreads.bid = Rat(9, 1000) /\ spreads.ask = Rat(11, 1000)
            /\ UsedRatio = Half
                => spreads.bid = base /\ spreads.ask = base

\* Witness: the worked example, volatility 0.002 at inventory ratio 0.7.
C6_Witness ==
    /\ spreads.path = "computed"
    /\ candles = "ok" /\ natr = Rat(2, 1000)
    /\ UsedRatio = Rat(7, 10)
    /\ spreads.bid = Rat(9, 1000)

\* C7: the spreads at inventory ratio 0.5 + d are the bid/ask-swapped spreads
\* at 0.5 - d, for the same volatility.
C7_MirrorSymmetry ==
    spreads.path = "computed" =>
        LET mirror == SkewedSpreads(UsedVolatility, RSub(One, UsedRatio))
        IN  /\ spreads.bid = mirror.ask
            /\ spreads.ask = mirror.bid

\* Witness: a skewed result (ratio 0.7, bid below ask) whose mirror is ratio 0.3.
C7_Witness ==
    /\ spreads.path = "computed"
    /\ UsedRatio = Rat(7, 10)
    /\ RLt(spreads.bid, spreads.ask)
    /\ natr = Rat(3, 10) /\ candles = "ok"

\* C8: for inventory ratios 0.5 < r1 <= r2 <= 1 and the same volatility,
\* ask(r1) <= ask(r2) and bid(r1) >= bid(r2).
C8_MonotoneAboveHalf ==
    (spreads.path = "computed" /\ RLt(Half, UsedRatio)) =>
        \A b2 \in BaseGrid, q2 \in QuoteGrid :
            LET r2 == InventoryRatio(b2, RMul(mid_price, q2))
                s2 == SkewedSpreads(UsedVolatility, r2)
            IN  RLe(UsedRatio, r2) =>
                    /\ RLe(spreads.ask, s2.ask)
                    /\ RLe(s2.bid, spreads.bid)

\* Witness: a result at ratio 0.7 whose ask is strictly below the ask at
\* ratio 1, so the comparison is between different values.
C8_Witness ==
    /\ spreads.path = "computed"
    /\ UsedRatio = Rat(7, 10)
    /\ RLt(spreads.ask, SkewedSpreads(UsedVolatility, One).ask)
    /\ RLt(SkewedSpreads(UsedVolatility, One).bid, spreads.bid)

----------------------------------------------------------------------------
(* Properties of the quote construction and the tick cycle (under Spec).   *)

\* A step of the behaviour that is a call of on_tick (the host's own steps
\* clear outcome).
TickStep == outcome' # "none" /\ on_tick

IsSubmit(step) == step.op \in {"buy", "sell"}

\* Position of an operation in the refresh: cancellations, the spread
\* calculation, the quote construction, the budget check, the submissions.
Rank(step) ==
    CASE step.op = "cancel" -> 1
      [] step.op = "calculate_spreads" -> 2
      [] step.op = "create_proposal" -> 3
      [] step.op = "adjust_candidates" -> 4
      [] OTHER -> 5

CountOp(s, op) == Cardinality({i \in 1..Len(s) : s[i].op = op})

\* C3: every submitted buy is priced <= the best bid and every submitted sell
\* >= the best ask of the same refresh; so with best bid < best ask no buy is
\* at or above the best ask and no sell at or below the best bid.
C3_QuotesDoNotCross ==
    \A i \in 1..Len(steps) :
        /\ steps[i].op = "buy" =>
              /\ RLe(steps[i].order.price, best_bid)
              /\ RLt(best_bid, best_ask) => RLt(steps[i].order.price, best_ask)
        /\ steps[i].op = "sell" =>
              /\ RLe(best_ask, steps[i].order.price)
              /\ RLt(best_bid, best_ask) => RLt(best_bid, steps[i].order.price)

\* Witness: a completed refresh on an uncrossed book whose computed buy price
\* P * (1 - bid_spread) lay above the best bid, so that the submitted buy sits
\* at the best bid, with the sell of the same refresh submitted too.
C3_Witness ==
    /\ outcome = "refreshed"
    /\ RLt(best_bid, best_ask)
    /\ RLt(best_bid, RMul(mid_price, RSub(One, spreads.bid)))
    /\ \E i \in 1..Len(steps) :
          steps[i].op = "buy" /\ steps[i].order.price = best_bid
    /\ \E i \in 1..Len(steps) : steps[i].op = "sell"

\* C4: in a refreshing tick every order resting at its start gets a cancel
\* request, then come the spread calculation, the quote construction, the
\* budget check and only then the submissions; nothing is submitted before
\* all cancellations, and at most one buy and one sell are submitted.
C4_RefreshOrder ==
    [][TickStep =>
          /\ \A i, j \in 1..Len(steps') :
                i < j => Rank(steps'[i]) <= Rank(steps'[j])
          /\ (\E i \in 1..Len(steps') : Rank(steps'[i]) > 1) =>
                \A order \in active_orders :
                    \E i \in 1..Len(steps') : steps'[i] = Step("cancel", order)
          /\ (\E i \in 1..Len(steps') : IsSubmit(steps'[i])) =>
                /\ CountOp(steps', "calculate_spreads") = 1
                /\ CountOp(steps', "create_proposal") = 1
                /\ CountOp(steps', "adjust_candidates") = 1
          /\ CountOp(steps', "buy") <= 1
          /\ CountOp(steps', "sell") <= 1
          /\ CountOp(steps', "cancel") <= Cardinality(active_orders)
      ]_vars

\* Witness: a completed refresh that cancelled two resting orders and then
\* submitted a buy and a sell.
C4_Witness ==
    /\ outcome = "refreshed"
    /\ CountOp(steps, "cancel") = 2
    /\ CountOp(steps, "buy") = 1
    /\ CountOp(steps, "sell") = 1

\* C5 as stated: the tick carries no state between ticks, so on_tick called
\* again on the same snapshot, after a refresh that submitted orders, performs
\* the same cancel-and-submit cycle and leaves the same resting orders.
C5_SameCycleEachTime ==
    [][(/\ outcome = "refreshed"
        /\ \E i \in 1..Len(steps) : IsSubmit(steps[i])
        /\ TickStep) =>
          /\ outcome' = "refreshed"
          /\ SelectSeq(steps', IsSubmit) = SelectSeq(steps, IsSubmit)
          /\ active_orders' = active_orders
      ]_vars

\* C5 amended: the tick cycle carries create_timestamp from one tick to the
\* next; after an on_tick that completed a refresh, on_tick called again on
\* the same snapshot (same current_timestamp) performs no cancel-and-submit
\* cycle at all, and so leaves the same resting orders as the single call.
C5_SecondTickIsNoOp ==
    [][(outcome = "refreshed" /\ TickStep) =>
          /\ outcome' = "skipped"
          /\ steps' = <<>>
          /\ active_orders' = active_orders
          /\ create_timestamp' = create_timestamp
          /\ create_timestamp = current_timestamp + order_refresh_time
      ]_vars

\* Witness: a tick skipped at the very timestamp of a completed refresh, both
\* orders of that refresh still resting.
C5_Witness ==
    /\ outcome = "skipped"
    /\ refreshes # <<>>
    /\ refreshes[Len(refreshes)] = current_timestamp
    /\ \E b, s \in active_orders : b.side = "BUY" /\ s.side = "SELL"

\* C9: a tick before create_timestamp cancels nothing, submits nothing and
\* leaves create_timestamp alone; a completed refresh sets create_timestamp
\* to current_timestamp + order_refresh_time; completed refreshes are at
\* least order_refresh_time apart; a tick at or after create_timestamp
\* enters the refresh (and completes it unless a host call raises).
C9_RefreshGate ==
    [][TickStep =>
          /\ current_timestamp < create_timestamp =>
                /\ outcome' = "skipped"
                /\ steps' = <<>>
                /\ active_orders' = active_orders
                /\ create_timestamp' = create_timestamp
          /\ create_timestamp <= current_timestamp =>
                /\ outcome' \in {"refreshed", "aborted"}
                /\ outcome' = "aborted" => fault # "none"
          /\ outcome' = "refreshed" =>
                /\ create_timestamp' = current_timestamp + order_refresh_time
                /\ refreshes' = Append(refreshes, current_timestamp)
          /\ \A i, j \in 1..Len(refreshes') :
                i < j => refreshes'[j] - refreshes'[i] >= order_refresh_time
      ]_vars

\* Witness: a second completed refresh, and later a skipped tick before the
\* next one is due.
C9_Witness ==
    /\ Len(refreshes) = 2
    /\ outcome = "skipped"
    /\ current_timestamp < create_timestamp
    /\ current_timestamp > refreshes[2]

\* C10: create_timestamp moves only once every order of the budget-adjusted
\* proposal is submitted; a refresh that aborts on a host error leaves it
\* unchanged, so the gate stays open and the next tick refreshes again.
C10_StampOnlyAfterSubmission ==
    [][/\ TickStep =>
            /\ outcome' = "aborted" =>
                  /\ create_timestamp' = create_timestamp
                  /\ create_timestamp' <= current_timestamp'
            /\ create_timestamp' # create_timestamp =>
                  /\ outcome' = "refreshed"
                  /\ CountOp(steps', "adjust_candidates") = 1
                  /\ \A side \in affordable :
                        \E i \in 1..Len(steps') :
                            IsSubmit(steps'[i]) /\ steps'[i].order.side = side
       /\ (outcome = "aborted" /\ outcome' = "none") =>
            create_timestamp' <= current_timestamp'
      ]_vars

\* Witness: a refresh that cancelled resting orders, submitted its buy and
\* then aborted on the sell submission, create_timestamp still not ahead.
C10_Witness ==
    /\ outcome = "aborted"
    /\ fault = "sell"
    /\ CountOp(steps, "cancel") >= 1
    /\ CountOp(steps, "buy") = 1
    /\ refreshes # <<>>
    /\ create_timestamp <= current_timestamp

====
